---- MODULE Spec2Model ----
(***************************************************************************)
(* Model of hackrf_antenna_swr_utility/main.py: the two scan loops         *)
(* (get_antenna_statistics_osmocom, get_antenna_statistics_rtl_power)      *)
(* reading the child's output line by line, and get_frequency_swr_pairs.   *)
(*                                                                         *)
(* A line of the child's output is a sequence of fields; a field is a      *)
(* token that float() either converts (isnum, value v) or rejects with a   *)
(* ValueError.  The empty sequence is the empty string that readline()     *)
(* returns at end of stream (and that strip() makes of a blank line).      *)
(***************************************************************************)
EXTENDS Integers, Sequences, FiniteSets, TLC

\* Bounds of the model.
MaxLines == 3
MaxLoops == 2
MaxFreq == 2
MaxBins == 2
MaxKey == 11

VARIABLES
    variant,                    \* which scan function runs: "osmocom" or "rtl_power"
    loops,                      \* the loops parameter (threshold)
    pc,                         \* "loop", "returned", "KeyboardInterrupt", "ValueError"
    line,                       \* the line last read from proc.stdout
    frequencies,                \* dict: frequency key -> list of power readings
    loop_cursor,
    max_encountered_frequency,
    sigints,                    \* the SIGINTs sent to proc, in order
    nlines,                     \* lines the child has written and the scan has read
    eof,                        \* the child's output has ended
    iteration,                  \* parity of the number of readline() calls made
    seen,                       \* samples the aggregator has processed, in order
    cancelled,                  \* where a KeyboardInterrupt was delivered, or "none"
    lateRead,                   \* a readline() was made after completion was signaled
    baseline,                   \* get_frequency_swr_pairs: the baseline dict
    measurements,               \* get_frequency_swr_pairs: the measurement dict
    data_pairs,                 \* get_frequency_swr_pairs: the list built and returned
    swr_pc                      \* "call", "returned", "KeyError", "ZeroDivisionError"

scanVars == <<variant, loops, pc, line, frequencies, loop_cursor,
              max_encountered_frequency, sigints, nlines, eof, iteration,
              seen, cancelled, lateRead>>

swrVars == <<baseline, measurements, data_pairs, swr_pc>>

vars == <<scanVars, swrVars>>

----------------------------------------------------------------------------
\* Tokens and lines

Num(n) == [isnum |-> TRUE, v |-> n]
Junk == [isnum |-> FALSE, v |-> 0]

Freqs == 0..MaxFreq
CenterFreqs == {1, 2}
Powers == {-70, -68}

\* "<date> <time> center_freq <c> freq <f> power_db <p> noise_floor_db <n>"
LineA(c, f, p) == <<Junk, Junk, Junk, c, Junk, f, Junk, p, Junk, Num(-75)>>

LinesA ==
    {LineA(Num(c), Num(f), Num(p)) : c \in CenterFreqs, f \in Freqs, p \in Powers}
    \cup {<<Junk, Junk, Junk>>}
    \cup {LineA(Junk, Num(f), Num(-70)) : f \in {1}}
    \cup {LineA(Num(1), Junk, Num(-70))}
    \cup {LineA(Num(c), Num(f), Junk) : c \in {1}, f \in {1}}

\* the dB readings of a record with n bins: -70, -68, -70, ...
BinReadings(n) == [i \in 1..n |-> Num(IF i % 2 = 1 THEN -70 ELSE -68)]

\* "<date>, <time>, <Hz low>, <Hz high>, <Hz step>, <samples>, <dB>, <dB>, ..."
LineB(base, step, readings) ==
    <<Junk, Junk, base, Num(MaxFreq + 1), step, Num(1)>> \o readings

LinesB ==
    {LineB(Num(b), Num(1), BinReadings(n)) : b \in Freqs, n \in 0..MaxBins}
    \cup {LineB(Num(1), Num(2), BinReadings(MaxBins))}
    \cup {<<Junk, Junk>>}
    \cup {<<Junk, Junk, Num(1), Num(2)>>}
    \cup {LineB(Junk, Num(1), <<Num(-70)>>)}
    \cup {LineB(Num(1), Junk, <<Num(-70)>>)}
    \cup {LineB(Num(b), Num(1), <<Junk>>) : b \in {1}}
    \cup {LineB(Num(b), Num(1), <<Num(-70), Junk>>) : b \in {1}}

\* str.split(sep): the fields of the line; the empty string splits into one
\* empty field.
Split(l) == IF l = <<>> THEN <<Junk>> ELSE l

----------------------------------------------------------------------------
\* The dict operations of lines 98-99 and 168-169

\* frequencies.setdefault(key, [])
SetDefault(d, key) == IF key \in DOMAIN d THEN d ELSE d @@ (key :> <<>>)

\* the reading is put in front of the key's list
AppendReadingFront(d, key, power) ==
    [SetDefault(d, key) EXCEPT ![key] = <<power>> \o @]

\* frequencies.setdefault(key, []).append(power)
AppendReading(d, key, power) ==
    [SetDefault(d, key) EXCEPT ![key] = Append(@, power)]

EmptyDict == [k \in {} |-> <<>>]

----------------------------------------------------------------------------
\* The aggregator: lines 86-99 (osmocom) and 156-169 (rtl_power), on the
\* locals of the scan collected in the record st.

WrappedStrict(freq, max) == freq < max

\* line 86 / line 156: the comparison that counts a loop
Wrapped(freq, max) == freq <= max

\* completion only when loop_cursor equals the threshold
CompletedExactly(lc, n) == lc = n

\* line 91 / line 161: if loop_cursor >= loops
Completed(lc, n) == lc >= n

\* the sample is recorded before the completion test
AggregateRecordFirst(st, freq, key, power) ==
    LET wrapped == Wrapped(freq, st.max_encountered_frequency)
        lc == IF wrapped THEN st.loop_cursor + 1 ELSE st.loop_cursor
        mx == IF wrapped THEN st.max_encountered_frequency ELSE freq
        s1 == [st EXCEPT !.loop_cursor = lc,
                         !.max_encountered_frequency = mx,
                         !.seen = Append(@, [freq |-> freq, key |-> key, power |-> power])]
        s2 == IF ~key.isnum THEN [s1 EXCEPT !.pc = "ValueError"]
              ELSE IF ~power.isnum
                   THEN [s1 EXCEPT !.frequencies = SetDefault(@, key.v),
                                   !.pc = "ValueError"]
                   ELSE [s1 EXCEPT !.frequencies = AppendReading(@, key.v, power.v)]
    IN  IF s2.pc = "ValueError" THEN s2
        ELSE IF lc >= loops
             THEN [s2 EXCEPT !.sigints = Append(@, [why |-> "complete", at |-> Len(s1.seen)]),
                             !.pc = "break"]
             ELSE s2

Aggregate(st, freq, key, power) ==
    LET wrapped == Wrapped(freq, st.max_encountered_frequency)
        lc == IF wrapped THEN st.loop_cursor + 1 ELSE st.loop_cursor
        mx == IF wrapped THEN st.max_encountered_frequency ELSE freq
        s1 == [st EXCEPT !.loop_cursor = lc,
                         !.max_encountered_frequency = mx,
                         !.seen = Append(@, [freq |-> freq, key |-> key, power |-> power])]
    IN  IF Completed(lc, loops)
        THEN \* proc.send_signal(signal.SIGINT); break
             [s1 EXCEPT !.sigints = Append(@, [why |-> "complete", at |-> Len(s1.seen)]),
                        !.pc = "break"]
        ELSE IF ~key.isnum
        THEN \* float(center_freq) raises
             [s1 EXCEPT !.pc = "ValueError"]
        ELSE IF ~power.isnum
        THEN \* setdefault has run, float(power) raises
             [s1 EXCEPT !.frequencies = SetDefault(@, key.v), !.pc = "ValueError"]
        ELSE [s1 EXCEPT !.frequencies = AppendReading(@, key.v, power.v)]

\* The locals of the running scan as a record, and back.
Locals ==
    [loop_cursor |-> loop_cursor,
     max_encountered_frequency |-> max_encountered_frequency,
     frequencies |-> frequencies,
     sigints |-> sigints,
     seen |-> seen,
     pc |-> "loop"]

Store(st, newpc) ==
    /\ loop_cursor' = st.loop_cursor
    /\ max_encountered_frequency' = st.max_encountered_frequency
    /\ frequencies' = st.frequencies
    /\ sigints' = st.sigints
    /\ seen' = st.seen
    /\ pc' = newpc

\* proc.stdout.readline(): the next line the child wrote, or the empty string
\* once its output has ended.
Readable(Lines) ==
    IF eof THEN {<<>>}
    ELSE IF nlines < MaxLines THEN Lines \cup {<<>>} ELSE {<<>>}

ReadLine(l) ==
    /\ line' = l
    /\ eof' = (eof \/ l = <<>>)
    /\ nlines' = IF l = <<>> THEN nlines ELSE nlines + 1
    /\ iteration' = 1 - iteration

HasCompleted == \E i \in 1..Len(sigints) : sigints[i].why = "complete"

----------------------------------------------------------------------------
\* get_antenna_statistics_osmocom, lines 66-99: one iteration of the loop

OsmocomIteration(l) ==
    /\ variant = "osmocom"
    /\ pc = "loop"
    /\ ReadLine(l)
    /\ lateRead' = (lateRead \/ HasCompleted)
    /\ UNCHANGED <<variant, loops, cancelled>>
    /\ LET fields == Split(l)
       IN IF Len(fields) # 10
          THEN \* the unpacking raises, the bare except continues
               UNCHANGED <<pc, frequencies, loop_cursor,
                           max_encountered_frequency, sigints, seen>>
          ELSE LET center_freq == fields[4]
                   freq == fields[6]
                   power_db == fields[8]
               IN IF ~freq.isnum
                  THEN \* float(freq) raises outside the inner try
                       /\ pc' = "ValueError"
                       /\ UNCHANGED <<frequencies, loop_cursor,
                                      max_encountered_frequency, sigints, seen>>
                  ELSE LET st == Aggregate(Locals, freq.v, center_freq, power_db)
                       IN Store(st, IF st.pc = "break" THEN "returned" ELSE st.pc)

\* sigints after the handler of lines 100-102 / 170-171 has run
HandlerSilent(sent, at) == sent

KeyboardInterruptHandler(sent, at) == Append(sent, [why |-> "cancel", at |-> at])

\* A KeyboardInterrupt raised inside readline() (line 67): lines 100-102
OsmocomInterruptedRead ==
    /\ variant = "osmocom"
    /\ pc = "loop"
    /\ cancelled = "none"
    /\ cancelled' = "read"
    /\ sigints' = KeyboardInterruptHandler(sigints, Len(seen))
    /\ pc' = "KeyboardInterrupt"
    /\ UNCHANGED <<variant, loops, line, frequencies, loop_cursor,
                   max_encountered_frequency, nlines, eof, iteration, seen,
                   lateRead>>

\* A KeyboardInterrupt raised inside the inner try (lines 71-81): the bare
\* except of line 82 catches it and continues with the next line.
OsmocomInterruptedParse(l) ==
    /\ variant = "osmocom"
    /\ pc = "loop"
    /\ cancelled = "none"
    /\ ReadLine(l)
    /\ lateRead' = (lateRead \/ HasCompleted)
    /\ cancelled' = "parse"
    /\ UNCHANGED <<variant, loops, pc, frequencies, loop_cursor,
                   max_encountered_frequency, sigints, seen>>

----------------------------------------------------------------------------
\* get_antenna_statistics_rtl_power, lines 133-169: one iteration of the
\* while loop

\* the for loop of lines 154-169 over the measurements of line 146 (bin_powers),
\* from index idx on
\* the step is left out of the bin's frequency
BinFrequencyNoStep(base_freq, idx, interval) == base_freq + idx

\* line 155: freq = base_freq + idx * interval
BinFrequency(base_freq, idx, interval) == base_freq + idx * interval

RECURSIVE ForLoop(_, _, _, _, _)
ForLoop(st, base_freq, interval, bin_powers, idx) ==
    IF idx >= Len(bin_powers) THEN st
    ELSE LET freq == BinFrequency(base_freq, idx, interval)
             s1 == Aggregate(st, freq, Num(freq), bin_powers[idx + 1])
         IN IF s1.pc # "loop" THEN s1
            ELSE ForLoop(s1, base_freq, interval, bin_powers, idx + 1)

\* lines 142-152: TRUE when the try block raises (IndexError, ValueError)
ParseFailsB(parts) ==
    \/ Len(parts) < 3
    \/ ~parts[3].isnum
    \/ Len(parts) < 5
    \/ ~parts[5].isnum

\* a blank line is treated like any other line
BlankIgnored(l) == FALSE

\* line 139: not line
Blank(l) == l = <<>>

RtlIteration(l) ==
    /\ variant = "rtl_power"
    /\ pc = "loop"
    /\ ReadLine(l)
    /\ lateRead' = (lateRead \/ HasCompleted)
    /\ UNCHANGED <<variant, loops, cancelled>>
    /\ IF Blank(l)
       THEN \* if not line: break
            /\ pc' = "returned"
            /\ UNCHANGED <<frequencies, loop_cursor, max_encountered_frequency,
                           sigints, seen>>
       ELSE LET parts == Split(l)
            IN IF ParseFailsB(parts)
               THEN \* logger.exception(...); continue
                    UNCHANGED <<pc, frequencies, loop_cursor,
                                max_encountered_frequency, sigints, seen>>
               ELSE LET base_freq == parts[3].v
                        interval == parts[5].v
                        bin_powers == SubSeq(parts, 7, Len(parts))
                        st == ForLoop(Locals, base_freq, interval, bin_powers, 0)
                    IN \* the break of line 166 leaves the for loop only
                       Store(st, IF st.pc = "break" THEN "loop" ELSE st.pc)

\* A KeyboardInterrupt raised inside readline() (line 134): lines 170-173
RtlInterruptedRead ==
    /\ variant = "rtl_power"
    /\ pc = "loop"
    /\ cancelled = "none"
    /\ cancelled' = "read"
    /\ sigints' = KeyboardInterruptHandler(sigints, Len(seen))
    /\ pc' = "returned"
    /\ UNCHANGED <<variant, loops, line, frequencies, loop_cursor,
                   max_encountered_frequency, nlines, eof, iteration, seen,
                   lateRead>>

\* A KeyboardInterrupt raised inside the inner try (lines 142-146): the bare
\* except of line 147 logs it and continues with the next line.
RtlInterruptedParse(l) ==
    /\ variant = "rtl_power"
    /\ pc = "loop"
    /\ cancelled = "none"
    /\ l # <<>>
    /\ ReadLine(l)
    /\ lateRead' = (lateRead \/ HasCompleted)
    /\ cancelled' = "parse"
    /\ UNCHANGED <<variant, loops, pc, frequencies, loop_cursor,
                   max_encountered_frequency, sigints, seen>>

----------------------------------------------------------------------------

\* no call of get_frequency_swr_pairs is under way
SwrIdle ==
    /\ baseline = EmptyDict
    /\ measurements = EmptyDict
    /\ data_pairs = <<>>
    /\ swr_pc = "returned"

Init ==
    /\ SwrIdle
    /\ variant \in {"osmocom", "rtl_power"}
    /\ loops \in 1..MaxLoops
    /\ pc = "loop"
    /\ line = <<>>
    /\ frequencies = EmptyDict
    /\ loop_cursor = 0
    /\ max_encountered_frequency = 0
    /\ sigints = <<>>
    /\ nlines = 0
    /\ eof = FALSE
    /\ iteration = 0
    /\ seen = <<>>
    /\ cancelled = "none"
    /\ lateRead = FALSE

ScanStep ==
    /\ UNCHANGED swrVars
    /\ \/ \E l \in Readable(LinesA) : OsmocomIteration(l)
       \/ \E l \in Readable(LinesB) : RtlIteration(l)

Interrupt ==
    /\ UNCHANGED swrVars
    /\ \/ OsmocomInterruptedRead
       \/ \E l \in Readable(LinesA) : OsmocomInterruptedParse(l)
       \/ RtlInterruptedRead
       \/ \E l \in Readable(LinesB) : RtlInterruptedParse(l)

Next == ScanStep \/ Interrupt

Spec == Init /\ [][Next]_vars

\* The scan loop keeps running while nothing stops it; the user's interrupt
\* is not forced to happen.
FairSpec == Init /\ [][Next]_vars /\ WF_vars(ScanStep)

----------------------------------------------------------------------------
\* get_frequency_swr_pairs, lines 176-191
\*
\* A key of the baseline dict is a float (a dict built by a scan) or a string
\* (a dict loaded by json.loads, line 236: JSON object keys are strings).  A
\* string is the sequence of its characters' code points.

FloatKey(n) == [t |-> "float", n |-> n, s |-> <<>>]
StrKey(s) == [t |-> "str", n |-> 0, s |-> s]

RECURSIVE Digits(_)
Digits(n) == IF n < 10 THEN <<48 + n>> ELSE Digits(n \div 10) \o <<48 + (n % 10)>>

\* the text json.dumps writes for the float key n (line 286): "<digits>.0"
Repr(n) == Digits(n) \o <<46, 48>>

\* the decimal value of the digit characters of s before the first "."
RECURSIVE ParseDigits(_, _)
ParseDigits(s, acc) ==
    IF s = <<>> \/ Head(s) = 46 THEN acc
    ELSE ParseDigits(Tail(s), 10 * acc + (Head(s) - 48))

\* float(frequency), line 181
Float(k) == IF k.t = "float" THEN k.n ELSE ParseDigits(k.s, 0)

\* the order of two strings: by code point, a proper prefix first
RECURSIVE LexLess(_, _)
LexLess(a, b) ==
    IF a = <<>> THEN b # <<>>
    ELSE IF b = <<>> THEN FALSE
    ELSE IF Head(a) # Head(b) THEN Head(a) < Head(b)
    ELSE LexLess(Tail(a), Tail(b))

\* the order sorted() uses on the keys: numeric on floats, lexicographic on
\* strings
KeyLess(a, b) == IF a.t = "float" THEN a.n < b.n ELSE LexLess(a.s, b.s)

\* sorted(baseline.keys()), line 179
RECURSIVE Sorted(_)
Sorted(S) ==
    IF S = {} THEN <<>>
    ELSE LET least == CHOOSE x \in S : \A y \in S \ {x} : KeyLess(x, y)
         IN <<least>> \o Sorted(S \ {least})

\* A float of the SWR computation: finite (v in thousandths of a dB for the
\* averages and the loss, in dB for a reading), or one of the values float()
\* makes of the texts "nan", "inf" and "-inf".
Fin(v) == [k |-> "fin", v |-> v]
NaN == [k |-> "nan", v |-> 0]
Inf == [k |-> "inf", v |-> 0]
NegInf == [k |-> "-inf", v |-> 0]

\* a + b on floats
FAdd(a, b) ==
    IF a.k = "nan" \/ b.k = "nan" THEN NaN
    ELSE IF a.k = "fin" /\ b.k = "fin" THEN Fin(a.v + b.v)
    ELSE IF a.k = "fin" THEN b
    ELSE IF b.k = "fin" \/ b.k = a.k THEN a
    ELSE NaN

\* -a
FNeg(a) ==
    IF a.k = "fin" THEN Fin(-a.v)
    ELSE IF a.k = "inf" THEN NegInf
    ELSE IF a.k = "-inf" THEN Inf
    ELSE NaN

\* a > b on floats: FALSE when either is nan
FGreater(a, b) ==
    /\ a.k # "nan"
    /\ b.k # "nan"
    /\ \/ a.k = "inf" /\ b.k # "inf"
       \/ a.k = "fin" /\ b.k = "-inf"
       \/ a.k = "fin" /\ b.k = "fin" /\ a.v > b.v

\* sum(xs), lines 183-184
RECURSIVE FSum(_)
FSum(xs) == IF xs = <<>> THEN Fin(0) ELSE FAdd(Head(xs), FSum(Tail(xs)))

\* sum(xs) / float(len(xs)) of a non-empty list of dB readings, in thousandths
FMean(xs) ==
    LET t == FSum(xs)
    IN IF t.k = "fin" THEN Fin((1000 * t.v) \div Len(xs)) ELSE t

\* max(a, b): the first argument unless the second is greater
PyMax(a, b) == IF FGreater(b, a) THEN b ELSE a

\* line 186: loss = max(pre_value - post_value, 0.001), in thousandths of a dB
Loss(pre, post) == PyMax(FAdd(FMean(pre), FNeg(FMean(post))), Fin(1))

\* 10 ** (loss / 20), line 187, by where it lies: above 1 ("gt1"), exactly 1
\* ("one"), between 0 and 1 ("lt1"), 0.0 ("zero"), inf or nan
Ratio(loss) ==
    IF loss.k = "nan" THEN "nan"
    ELSE IF loss.k = "inf" THEN "inf"
    ELSE IF loss.k = "-inf" THEN "zero"
    ELSE IF loss.v > 0 THEN "gt1"
    ELSE IF loss.v = 0 THEN "one"
    ELSE "lt1"

\* (ratio + 1) / (ratio - 1), line 187, by where it lies: 1 or more ("ge1"),
\* -1 or less ("le-1"), nan, or the ZeroDivisionError of a ratio of 1
Swr(ratio) ==
    IF ratio = "gt1" THEN "ge1"
    ELSE IF ratio = "one" THEN "ZeroDivisionError"
    ELSE IF ratio \in {"lt1", "zero"} THEN "le-1"
    ELSE "nan"

\* a baseline frequency the measurements lack is left out of the result
RECURSIVE SwrLoopSkipMissing(_, _, _, _)
SwrLoopSkipMissing(keys, base, meas, pairs) ==
    IF keys = <<>> THEN [pc |-> "returned", data_pairs |-> pairs]
    ELSE LET frequency == Head(keys)
         IN IF Float(frequency) \notin DOMAIN meas
            THEN SwrLoopSkipMissing(Tail(keys), base, meas, pairs)
            ELSE LET loss == Loss(base[frequency], meas[Float(frequency)])
                 IN SwrLoopSkipMissing(Tail(keys), base, meas,
                        Append(pairs, <<frequency,
                                        [loss |-> loss, swr |-> Swr(Ratio(loss))]>>))

\* the body of the for loop, lines 179-189, over the sorted keys; a pair holds
\* the key and, for the swr of line 187, the loss and where the swr lies
RECURSIVE SwrLoop(_, _, _, _)
SwrLoop(keys, base, meas, pairs) ==
    IF keys = <<>> THEN [pc |-> "returned", data_pairs |-> pairs]
    ELSE LET frequency == Head(keys)
         IN IF Float(frequency) \notin DOMAIN meas
            THEN [pc |-> "KeyError", data_pairs |-> <<>>]
            ELSE LET pre == base[frequency]
                     post == meas[Float(frequency)]
                 IN IF pre = <<>> \/ post = <<>>
                    THEN [pc |-> "ZeroDivisionError", data_pairs |-> <<>>]
                    ELSE LET loss == Loss(pre, post)
                             swr == Swr(Ratio(loss))
                         IN IF swr = "ZeroDivisionError"
                            THEN [pc |-> "ZeroDivisionError", data_pairs |-> <<>>]
                            ELSE SwrLoop(Tail(keys), base, meas,
                                         Append(pairs, <<frequency,
                                                         [loss |-> loss, swr |-> swr]>>))

GetFrequencySwrPairs ==
    /\ swr_pc = "call"
    /\ LET r == SwrLoop(Sorted(DOMAIN baseline), baseline, measurements, <<>>)
       IN /\ swr_pc' = r.pc
          /\ data_pairs' = r.data_pairs
    /\ UNCHANGED <<baseline, measurements, scanVars>>

KeyNums == 8..MaxKey
Readings ==
    {<<Fin(-70)>>, <<Fin(-70), Fin(-80)>>, <<Fin(-80), Fin(-80)>>,
     <<NaN>>, <<Fin(-70), NegInf>>}

\* no scan is under way
ScanIdle ==
    /\ variant = "osmocom"
    /\ loops = 1
    /\ pc = "returned"
    /\ line = <<>>
    /\ frequencies = EmptyDict
    /\ loop_cursor = 0
    /\ max_encountered_frequency = 0
    /\ sigints = <<>>
    /\ nlines = 0
    /\ eof = FALSE
    /\ iteration = 0
    /\ seen = <<>>
    /\ cancelled = "none"
    /\ lateRead = FALSE

\* a call get_frequency_swr_pairs(baseline, measurements): the baseline keyed
\* by floats or by the strings of a persisted record, the measurements keyed
\* by floats
InitSwr ==
    /\ ScanIdle
    /\ \E t \in {"float", "str"}, B \in SUBSET KeyNums, M \in SUBSET KeyNums :
         \E rb \in Readings, rm \in Readings :
            /\ baseline = [k \in {IF t = "float" THEN FloatKey(n) ELSE StrKey(Repr(n)) :
                                    n \in B} |-> rb]
            /\ measurements = [n \in M |-> rm]
    /\ data_pairs = <<>>
    /\ swr_pc = "call"

NextSwr == GetFrequencySwrPairs

SpecSwr == InitSwr /\ [][NextSwr]_vars

----------------------------------------------------------------------------
\* What the stream of processed samples says, computed from the samples alone

Max(S) == CHOOSE x \in S : \A y \in S : y <= x

SeenFreqs == [i \in 1..Len(seen) |-> seen[i].freq]

\* the running maximum before sample i: 0, or the largest earlier frequency
RunningMax(fs, i) == Max({0} \cup {fs[j] : j \in 1..(i - 1)})

\* the number of samples among the first n whose frequency is <= the running
\* maximum
LoopCount(fs, n) == Cardinality({i \in 1..n : fs[i] <= RunningMax(fs, i)})

\* the first sample at which that number reaches N, or 0 when it never does
FirstReach(fs, N) ==
    LET reached == {n \in 1..Len(fs) : LoopCount(fs, n) >= N}
    IN IF reached = {} THEN 0 ELSE CHOOSE n \in reached : \A m \in reached : n <= m

CompleteSignals == SelectSeq(sigints, LAMBDA s : s.why = "complete")
CancelSignals == SelectSeq(sigints, LAMBDA s : s.why = "cancel")

Decoded(s) == s.key.isnum /\ s.power.isnum

\* the readings of the decoded samples with key k among the first n samples
\* that were processed while the loop count was still below the threshold
RECURSIVE ReadingsBeforeCompletion(_, _)
ReadingsBeforeCompletion(k, n) ==
    IF n = 0 THEN <<>>
    ELSE LET rest == ReadingsBeforeCompletion(k, n - 1)
         IN IF /\ Decoded(seen[n])
               /\ seen[n].key.v = k
               /\ LoopCount(SeenFreqs, n) < loops
            THEN Append(rest, seen[n].power.v)
            ELSE rest

ReadingsOf(k) == IF k \in DOMAIN frequencies THEN frequencies[k] ELSE <<>>

SeenKeys == {seen[i].key.v : i \in {j \in 1..Len(seen) : seen[j].key.isnum}}

----------------------------------------------------------------------------
\* C1: in both scan variants, once a KeyboardInterrupt has been delivered to
\* the running scan loop the scan never returns normally: the cancellation
\* reaches the caller.
C1_CancellationPropagates == cancelled # "none" => pc # "returned"

\* C2: when the child's output ends before the threshold is reached, the
\* osmocom scan eventually returns the map accumulated so far (unless the user
\* cancels it first).
C2_EofTerminates ==
    (variant = "osmocom" /\ pc = "loop" /\ eof /\ loop_cursor < loops)
        ~> (pc = "returned" \/ cancelled # "none")

\* C3: once loop_cursor has reached the threshold, a SIGINT has been sent to
\* the child and no further line is read from its output.
C3_NoReadAfterCompletion ==
    loop_cursor >= loops => (CompleteSignals # <<>> /\ ~lateRead)

C5_CompletionAtFirstReach ==
    LET k == FirstReach(SeenFreqs, loops)
    IN IF k = 0 THEN CompleteSignals = <<>>
       ELSE CompleteSignals # <<>> /\ CompleteSignals[1].at = k

C5_Witness ==
    /\ loops = 2
    /\ HasCompleted
    /\ CompleteSignals[1].at = 4
    /\ SeenFreqs[1] < SeenFreqs[2]

\* the processed samples are repeated passes over one range of at least two
\* frequencies, each pass strictly increasing and positive
RepeatedPasses ==
    \E m \in 2..Len(seen) :
        /\ \A i \in 1..m : seen[i].freq > 0
        /\ \A i \in 2..m : seen[i - 1].freq < seen[i].freq
        /\ \A i \in 1..Len(seen) : seen[i].freq = seen[((i - 1) % m) + 1].freq

Wraps == Cardinality({i \in 2..Len(seen) : seen[i].freq < seen[i - 1].freq})

\* C6: over repeated strictly increasing passes, loop_cursor counts the
\* wrap-arounds, so completion is signaled only after the threshold number of
\* wrap-arounds.
C6_OneLoopPerWrap ==
    (seen # <<>> /\ RepeatedPasses) =>
        /\ loop_cursor = Wraps
        /\ HasCompleted => Wraps >= loops

\* a Format A line that is not a 10-field record with numeric center_freq,
\* freq and power_db
MalformedA(l) ==
    \/ Len(Split(l)) # 10
    \/ ~l[4].isnum
    \/ ~l[6].isnum
    \/ ~l[8].isnum

\* C7: an osmocom iteration that reads a malformed line skips it: the scan
\* goes on, and the map, loop_cursor and max_encountered_frequency keep
\* their values.
C7_MalformedLineSkipped ==
    [][(variant = "osmocom" /\ pc = "loop" /\ cancelled' = cancelled
            /\ MalformedA(line'))
        => (pc' = "loop" /\ UNCHANGED <<frequencies, loop_cursor,
                                        max_encountered_frequency>>)]_vars

\* a non-blank Format B line with a non-numeric base, step or reading
MalformedB(l) ==
    /\ l # <<>>
    /\ \/ ParseFailsB(l)
       \/ \E i \in 7..Len(l) : ~l[i].isnum

\* C8: an rtl_power iteration that reads a malformed record goes on to the
\* next line: no exception reaches the caller.
C8_MalformedRecordSkipped ==
    [][(variant = "rtl_power" /\ pc = "loop" /\ cancelled' = cancelled
            /\ MalformedB(line'))
        => pc' = "loop"]_vars

\* C9: a scan cancelled while it waits in readline() has sent a SIGINT to the
\* child for that cancellation by the time it has left the loop.
C9_CancelSignalsChild ==
    cancelled = "read" =>
        /\ pc \in {"KeyboardInterrupt", "returned"}
        /\ CancelSignals # <<>>

C9_Witness ==
    /\ cancelled = "read"
    /\ seen # <<>>
    /\ pc \in {"KeyboardInterrupt", "returned"}
    /\ sigints[Len(sigints)].why = "cancel"

\* C10: get_frequency_swr_pairs returns one pair per key of the baseline, in
\* ascending numeric order of frequency.
C10_PairsAscending ==
    swr_pc = "returned" =>
        /\ Len(data_pairs) = Cardinality(DOMAIN baseline)
        /\ {data_pairs[i][1] : i \in 1..Len(data_pairs)} = DOMAIN baseline
        /\ \A i \in 1..Len(data_pairs) : \A j \in 1..Len(data_pairs) :
              i < j => Float(data_pairs[i][1]) < Float(data_pairs[j][1])

\* the baseline frequencies that the measurement map lacks
MissingKeys == {k \in DOMAIN baseline : Float(k) \notin DOMAIN measurements}

\* C11: when a baseline frequency is absent from the measurement map, the call
\* ends in a KeyError and returns nothing: no list of pairs, neither one that
\* omits the frequency nor one with a default for it.
C11_MissingKeyFails ==
    (swr_pc # "call" /\ MissingKeys # {}) =>
        (swr_pc = "KeyError" /\ data_pairs = <<>>)

C11_Witness ==
    /\ swr_pc = "KeyError"
    /\ Cardinality(MissingKeys) = 1
    /\ Cardinality(DOMAIN baseline) >= 3
    /\ \E k \in DOMAIN baseline : k \in MissingKeys /\ k # Sorted(DOMAIN baseline)[1]

\* C12: an rtl_power iteration that reads a blank line (or the end of the
\* stream) before loop_cursor has reached the threshold ends the scan: the
\* function returns normally, with the map as the lines before it left it.
C12_BlankLineEndsScan ==
    [][(/\ variant = "rtl_power"
        /\ pc = "loop"
        /\ loop_cursor < loops
        /\ iteration' # iteration
        /\ line' = <<>>)
        => (pc' = "returned" /\ frequencies' = frequencies)]_vars

C12_Witness ==
    /\ variant = "rtl_power"
    /\ pc = "returned"
    /\ line = <<>>
    /\ cancelled = "none"
    /\ loop_cursor < loops
    /\ Cardinality(DOMAIN frequencies) >= 2
    /\ nlines >= 2

\* C13: the loss of every pair is max(baseline_avg - measurement_avg, 0.001),
\* so it is at least 0.001 (1 thousandth of a dB), the ratio is above 1, the
\* division never has a zero denominator and every swr returned is >= 1.
C13_LossFlooredSwrAtLeastOne ==
    /\ swr_pc # "ZeroDivisionError"
    /\ swr_pc = "returned" =>
          \A i \in 1..Len(data_pairs) :
              /\ data_pairs[i][2].loss.k = "fin"
              /\ data_pairs[i][2].loss.v >= 1
              /\ data_pairs[i][2].swr = "ge1"

\* a Format B line with numeric base and step and numeric readings
WellFormedB(l) == l # <<>> /\ ~MalformedB(l)

\* the samples of a well-formed Format B line: one per field from the seventh
\* on, the i-th (from 0) at base + i * step with that field as its power
ExpectedSamples(l) ==
    [j \in 1..(Len(l) - 6) |->
        [freq |-> l[3].v + (j - 1) * l[5].v,
         key |-> Num(l[3].v + (j - 1) * l[5].v),
         power |-> l[6 + j]]]

\* the readings of the samples of smp with key k, in order
RECURSIVE PowersUnder(_, _)
PowersUnder(k, smp) ==
    IF smp = <<>> THEN <<>>
    ELSE IF Head(smp).key.v = k
         THEN <<Head(smp).power.v>> \o PowersUnder(k, Tail(smp))
         ELSE PowersUnder(k, Tail(smp))

\* C14: an rtl_power iteration that reads a well-formed line while loop_cursor
\* is below the threshold processes the line's samples in field order, the
\* i-th at base + i * step with the power of field 7 + i, up to the sample that
\* signals completion, and appends each sample before that one under its
\* frequency, in field order.
C14_SamplesOfLine ==
    [][(/\ variant = "rtl_power"
        /\ pc = "loop"
        /\ loop_cursor < loops
        /\ iteration' # iteration
        /\ cancelled' = cancelled
        /\ WellFormedB(line'))
        => LET expected == ExpectedSamples(line')
               new == SubSeq(seen', Len(seen) + 1, Len(seen'))
               done == loop_cursor' >= loops
               recorded == IF done THEN SubSeq(new, 1, Len(new) - 1) ELSE new
           IN /\ Len(seen') >= Len(seen)
              /\ SubSeq(seen', 1, Len(seen)) = seen
              /\ Len(new) <= Len(expected)
              /\ new = SubSeq(expected, 1, Len(new))
              /\ Len(new) < Len(expected) => done
              /\ DOMAIN frequencies' =
                    DOMAIN frequencies \cup {recorded[i].key.v : i \in 1..Len(recorded)}
              /\ \A k \in DOMAIN frequencies' :
                    frequencies'[k] =
                        (IF k \in DOMAIN frequencies THEN frequencies[k] ELSE <<>>)
                            \o PowersUnder(k, recorded)]_vars

C14_Witness ==
    /\ variant = "rtl_power"
    /\ pc = "loop"
    /\ cancelled = "none"
    /\ loop_cursor < loops
    /\ line = LineB(Num(1), Num(2), BinReadings(MaxBins))
    /\ nlines >= 2
    /\ 3 \in DOMAIN frequencies
    /\ frequencies[3][Len(frequencies[3])] = -68

\* C15: the first sample processed in a scan sets max_encountered_frequency
\* to its frequency and leaves loop_cursor at 0, whatever its frequency.
C15_FirstSampleSetsMax ==
    Len(seen) = 1 =>
        (max_encountered_frequency = seen[1].freq /\ loop_cursor = 0)

\* C16: every key of the map is the key of a sample decoded from the child's
\* output in this scan and maps to a non-empty list of readings.
C16_KeysObservedNonEmpty ==
    \A k \in DOMAIN frequencies :
        /\ k \in SeenKeys
        /\ frequencies[k] # <<>>

\* s is a prefix of t
IsPrefix(s, t) == Len(s) <= Len(t) /\ SubSeq(t, 1, Len(s)) = s

\* C17: no step of a scan removes a key of the map, and every key's list of
\* readings after the step has its list before the step as a prefix.
C17_MapOnlyGrows ==
    [][\A k \in DOMAIN frequencies :
          /\ k \in DOMAIN frequencies'
          /\ IsPrefix(frequencies[k], frequencies'[k])]_vars

C17_Witness ==
    /\ Cardinality(DOMAIN frequencies) >= 2
    /\ \E k \in DOMAIN frequencies : frequencies[k] = <<-70, -68>>

\* C18: in the rtl_power scan no step taken with loop_cursor at or above the
\* threshold changes the map, so the map returned is the map at the moment
\* completion was first signaled.
C18_MapFrozenAfterCompletion ==
    [][(variant = "rtl_power" /\ loop_cursor >= loops)
        => frequencies' = frequencies]_vars

C18_Witness ==
    /\ variant = "rtl_power"
    /\ pc = "returned"
    /\ cancelled = "none"
    /\ Len(CompleteSignals) >= 2
    /\ loop_cursor > loops
    /\ DOMAIN frequencies # {}

\* C19: a scan that is not cancelled sends the child at most one SIGINT.
C19_AtMostOneSignal == cancelled = "none" => Len(sigints) <= 1

====
